---- MODULE Spec2Model ----
(***************************************************************************)
(* forkargs: the slot table, the reachability probe's effect on it, and    *)
(* the admission / dispatch / reap loop of main() together with the two    *)
(* SIGINT handlers, modelled from the latest revision of forkargs.c.       *)
(*                                                                         *)
(* Conventions                                                             *)
(*  - slot index k of the model is slots[k-1] of the C table;              *)
(*  - a C string is a sequence of one-character strings, a NULL pointer   *)
(*    is the sequence <<"NULL">>; cpid -1 is NoPid;                        *)
(*  - the main thread advances one step per action; the steps are cut      *)
(*    where a SIGINT handler can observe a different table or flag         *)
(*    (between wait() returning and the table update, between fork()       *)
(*    returning and the table update, between the tests of the loop        *)
(*    condition);                                                          *)
(*  - signal() installs handlers with BSD semantics (glibc, macOS): a      *)
(*    blocked wait() is restarted after the handler returns.               *)
(***************************************************************************)
EXTENDS Integers, Sequences, FiniteSets, TLC

\* ---------------------------------------------------------------- bounds
MaxSlots == 2
MaxLines == 2
MaxSignals == 2
MaxForkFail == 1
MaxEntries == 2
MaxPieces == 3
MaxLineLen == 3

\* ------------------------------------------------------ program constants
NoPid == -1
EXIT_SUCCESS == 0
EXIT_FAILURE == 1
\* the exit status of "Bad hostname", as of a bad command line argument
ParseErrorStatus == 2
\* the exit status after a failed wait, an unknown child or no free slot
InvariantViolationStatus == 1

\* the NULL hostname pointer, and the NULL line pointer
NULL == <<"NULL">>
NullLine == <<"NULL">>
Hosts == {<<"h", "1">>}
LOCALHOST == <<"l", "o", "c", "a", "l", "h", "o", "s", "t">>

\* ----------------------------------------------------------------- input
\* The text of the k-th input line, without its terminator.  Lines repeat
\* and contain blanks: the dispatcher never looks inside a line.
LineText(k) == IF k % 2 = 1 THEN <<"a">> ELSE <<"b", " ">>

\* The input stream holding n newline-terminated lines.
InputStream(n) == [k \in 1..n |-> LineText(k) \o <<"\n">>]

\* Mutant of read_line: the line returned is the last of the stream.
read_line_Last(in) == IF in = <<>> THEN NullLine ELSE in[Len(in)]

\* read_line: the next line of the stream, terminator included, or NULL
\* at end of input.
read_line(in) == IF in = <<>> THEN NullLine ELSE Head(in)

RECURSIVE FirstNewline(_, _)
FirstNewline(s, k) ==
  IF k > Len(s) THEN 0
  ELSE IF s[k] = "\n" THEN k
  ELSE FirstNewline(s, k + 1)

\* "Strip newline": cut the line at its first newline, if it has one.
StripNewline(s) ==
  LET nl == FirstNewline(s, 1)
  IN  IF nl = 0 THEN s ELSE SubSeq(s, 1, nl - 1)

\* ------------------------------------------------------------ slot table
Slot(h, f) ==
  [hostname |-> h, cpid |-> NoPid, arg |-> NullLine, faulted |-> f]

\* setup_slots without a slot string: nproc local slots from calloc.
DefaultTable(nproc) == [k \in 1..nproc |-> Slot(NULL, FALSE)]

\* setup_slots with a slot string: one slot per expanded entry, host NULL
\* for a local entry.  The table is grown by realloc and `faulted' is never
\* assigned: slot 0 keeps the zero of the original calloc, the flag of
\* every later slot is whatever the allocator returned (raw).
StringTable(hosts, raw) ==
  [k \in 1..Len(hosts) |-> Slot(hosts[k], IF k = 1 THEN FALSE ELSE raw[k])]

\* Mutant of EarlierSameHost: no earlier slot is ever found.
EarlierSameHost_None(tbl, i, j) == i

\* test_slots, the search for an earlier slot with the same hostname.
RECURSIVE EarlierSameHost(_, _, _)
EarlierSameHost(tbl, i, j) ==
  IF j >= i THEN i
  ELSE IF tbl[j].hostname # NULL /\ tbl[j].hostname = tbl[i].hostname THEN j
  ELSE EarlierSameHost(tbl, i, j + 1)

\* How the probe of a host can end: `ssh host true' exits 0, exits nonzero,
\* cannot be executed, is ended by a signal, or fork() fails.
ProbeOutcomes == {"exit0", "exitN", "execfail", "signal", "forkfail"}

\* the wait status of the probe child: after a failed execvp it exit(1)s
ProbeStatus(o) == IF o = "execfail" THEN "exitN" ELSE o

\* Mutant of ProbeFaulted: only a probe that ran and exited nonzero counts.
ProbeFaulted_ExecIgnored(o) == o = "exitN"

\* WEXITSTATUS(status) != 0, with no WIFEXITED before it: the exit-status
\* bits of a status that reports a signal are 0.
ProbeFaulted(o) == ProbeStatus(o) = "exitN"

\* test_slots: slots i..n of the table.  outcome[h] is how the probe of
\* host h ends, log the hosts probed so far.  abort: the exit(1) after a
\* failed fork().
RECURSIVE test_slots(_, _, _, _)
test_slots(tbl, outcome, i, log) ==
  IF i > Len(tbl) THEN [tbl |-> tbl, probed |-> log, abort |-> FALSE]
  ELSE IF tbl[i].hostname # NULL /\ tbl[i].hostname # LOCALHOST
  THEN LET j == EarlierSameHost(tbl, i, 1)
           h == tbl[i].hostname
       IN  IF j # i
           THEN test_slots([tbl EXCEPT ![i].faulted = tbl[j].faulted],
                           outcome, i + 1, log)
           ELSE IF outcome[h] = "forkfail"
           THEN [tbl |-> tbl, probed |-> log, abort |-> TRUE]
           ELSE IF ProbeFaulted(outcome[h])
           THEN test_slots([tbl EXCEPT ![i].faulted = TRUE], outcome, i + 1,
                           Append(log, h))
           ELSE test_slots(tbl, outcome, i + 1, Append(log, h))
  ELSE test_slots(tbl, outcome, i + 1, log)

\* "Count the number of faulted slots."
CountFaulted(tbl) == Cardinality({k \in 1..Len(tbl) : tbl[k].faulted})

\* ------------------------------------------------------------- characters
NUL == "NUL"
\* the character at position c of the C string s, NUL past its end
At(s, c) == IF c > Len(s) THEN NUL ELSE s[c]

DigitSeq == <<"0", "1", "2", "3", "4", "5", "6", "7", "8", "9">>
Digit == {DigitSeq[k] : k \in 1..10}
Alpha ==
  {"a", "b", "c", "d", "e", "f", "g", "h", "i", "j", "k", "l", "m", "n", "o",
   "p", "q", "r", "s", "t", "u", "v", "w", "x", "y", "z", "A", "B", "C", "D",
   "E", "F", "G", "H", "I", "J", "K", "L", "M", "N", "O", "P", "Q", "R", "S",
   "T", "U", "V", "W", "X", "Y", "Z"}
isdigit(ch) == ch \in Digit
isalnum(ch) == ch \in Digit \cup Alpha
isspace(ch) == ch \in {" ", "\t", "\n", "\r", "\f"}

\* atol of a string of digits
RECURSIVE atol(_)
atol(num) ==
  IF num = <<>> THEN 0
  ELSE atol(SubSeq(num, 1, Len(num) - 1)) * 10
       + (CHOOSE v \in 0..9 : DigitSeq[v + 1] = num[Len(num)])

\* -------------------------------------------------------------- escape_str
\* Mutant of Safe: the blank is passed through as well.
Safe_WithBlank(ch) == isalnum(ch) \/ ch \in {"_", "-", "/", ".", " "}

\* the characters escape_str copies without a backslash
Safe(ch) == isalnum(ch) \/ ch \in {"_", "-", "/", "."}

\* escape_str: a backslash before every character that is not safe
RECURSIVE escape_str(_)
escape_str(s) ==
  IF s = <<>> THEN <<>>
  ELSE (IF Safe(Head(s)) THEN <<>> ELSE <<"\\">>) \o <<Head(s)>>
       \o escape_str(Tail(s))

\* The argument list a POSIX shell makes of the text ssh hands it, for text
\* whose only quoting is the backslash: blanks outside a quoting separate
\* words, a backslash makes the next character literal (and vanishes with
\* a newline after it), any other unquoted character outside the safe set
\* is shell syntax, kept here as a word <<"OP", ch>> that no argument equals.
\* cur is the word being read, inword whether one was begun.
RECURSIVE ShellRead(_, _, _, _, _)
ShellRead(s, i, cur, inword, words) ==
  LET done == IF inword THEN Append(words, cur) ELSE words
  IN  IF i > Len(s) THEN done
      ELSE IF s[i] = "\\"
      THEN IF i = Len(s) THEN Append(words, Append(cur, "\\"))
           ELSE IF s[i + 1] = "\n" THEN ShellRead(s, i + 2, cur, inword, words)
           ELSE ShellRead(s, i + 2, Append(cur, s[i + 1]), TRUE, words)
      ELSE IF s[i] \in {" ", "\t", "\n"}
      THEN ShellRead(s, i + 1, <<>>, FALSE, done)
      ELSE IF Safe(s[i])
      THEN ShellRead(s, i + 1, Append(cur, s[i]), TRUE, words)
      ELSE ShellRead(s, i + 1, <<>>, FALSE, Append(done, <<"OP", s[i]>>))

ShellWords(s) == ShellRead(s, 1, <<>>, FALSE, <<>>)

\* ---------------------------------------------------- slot specification
\* getenv("HOME")
HOME == <<"/", "r">>

\* working_dir_str: a leading ~ of a local directory becomes $HOME
working_dir_str(s, remote) ==
  IF At(s, 1) = "~" /\ ~remote
  THEN HOME \o (IF At(s, 2) # "/" /\ At(s, 2) # NUL THEN <<"/">> ELSE <<>>)
       \o Tail(s)
  ELSE s

\* the command of the run: main's args[0 .. line_arg-1]
Command == << <<"c">>, <<"x", " ">> >>

\* the first position from c on whose character is outside set
RECURSIVE Span(_, _, _)
Span(s, c, set) ==
  IF c <= Len(s) /\ s[c] \in set THEN Span(s, c + 1, set) ELSE c

\* while (*c && *c != ',') of the working directory
RECURSIVE UntilComma(_, _)
UntilComma(s, c) ==
  IF c <= Len(s) /\ s[c] # "," THEN UntilComma(s, c + 1) ELSE c

Space == {" ", "\t", "\n", "\r", "\f"}
\* Mutant of HostChars: the '-' is not a hostname character.
HostChars_NoDash == Digit \cup Alpha \cup {".", "@"}

\* isalnum(*c) || *c == '-' || *c == '.' || *c == '@'
HostChars == Digit \cup Alpha \cup {"-", ".", "@"}

\* One pass of the parse loop from position c: the entry's count, host
\* name, working directory, the position after it, and whether the
\* hostname was empty ("Bad hostname").
ParseEntry(s, c) ==
  LET c0 == Span(s, c, Space)
      c2 == Span(s, c0, Digit)
      c3 == Span(s, c2, Space)
      isnum == isdigit(At(s, c0))
      star == isnum /\ At(s, c3) = "*"
      bare == isnum /\ ~star /\ At(s, c3) \in {NUL, ","}
      c4 == IF star THEN Span(s, c3 + 1, Space) ELSE IF bare THEN c3 ELSE c0
      hashost == At(s, c4) \notin {NUL, ",", ":"}
      c5 == IF hashost THEN Span(s, c4, HostChars) ELSE c4
      haswd == At(s, c5) = ":"
      c6 == IF haswd THEN UntilComma(s, c5 + 1) ELSE c5
  IN  [num_slots |-> IF star \/ bare THEN atol(SubSeq(s, c0, c2 - 1)) ELSE 1,
       hostname |-> IF hashost THEN SubSeq(s, c4, c5 - 1) ELSE LOCALHOST,
       working_dir |-> IF haswd THEN SubSeq(s, c5 + 1, c6 - 1) ELSE <<>>,
       badhost |-> hashost /\ c5 = c4,
       c |-> Span(s, c6, Space)]

\* Mutant of IsLocalName: only "-" names the local machine.
IsLocalName_DashOnly(hostname) == hostname = <<"-">>

\* !(strcmp(hostname, "localhost") && strcmp(hostname, "-"))
IsLocalName(hostname) == hostname = LOCALHOST \/ hostname = <<"-">>

\* Mutant of SlotDescr: the array has one entry less (no room for the
\* terminator of a remote slot with a working directory).
SlotDescr_ShortAlloc(hostname, working_dir, args) ==
  LET host == IF IsLocalName(hostname) THEN NULL ELSE hostname
      wd == IF working_dir # <<>>
            THEN working_dir_str(working_dir, host # NULL) ELSE NULL
      slot_args ==
        IF host # NULL
        THEN << <<"s", "s", "h">>, host >>
             \o (IF wd # NULL
                 THEN << <<"c", "d">>, escape_str(wd), <<";">> >> ELSE <<>>)
             \o [a \in 1..Len(args) |-> escape_str(args[a])]
        ELSE args
  IN  [hostname |-> host, working_dir |-> wd, args |-> slot_args,
       n_args |-> Len(slot_args), remote_slot |-> host # NULL,
       alloc |-> Len(args) + 2 + 2 + 2]

\* "Set up NUM_SLOTS slots for this entry": the fields of one of them.
\* alloc is the number of entries calloc'ed for args.
SlotDescr(hostname, working_dir, args) ==
  LET host == IF IsLocalName(hostname) THEN NULL ELSE hostname
      wd == IF working_dir # <<>>
            THEN working_dir_str(working_dir, host # NULL) ELSE NULL
      slot_args ==
        IF host # NULL
        THEN << <<"s", "s", "h">>, host >>
             \o (IF wd # NULL
                 THEN << <<"c", "d">>, escape_str(wd), <<";">> >> ELSE <<>>)
             \o [a \in 1..Len(args) |-> escape_str(args[a])]
        ELSE args
  IN  [hostname |-> host, working_dir |-> wd, args |-> slot_args,
       n_args |-> Len(slot_args), remote_slot |-> host # NULL,
       alloc |-> Len(args) + 2 + 2 + 3]

\* the slots setup_slots makes without a slot string: the command array is
\* main's own, calloc'ed with argc - first_arg + 2 entries
DefaultDescr(args) ==
  [hostname |-> NULL, working_dir |-> NULL, args |-> args,
   n_args |-> Len(args), remote_slot |-> FALSE, alloc |-> Len(args) + 2]

\* The parse loop from position c, tbl the slots made so far.  status is
\* the exit status of a parse error and site its line, -1 and 0 when the
\* loop ends normally.
RECURSIVE ParseSlots(_, _, _, _)
ParseSlots(s, c, args, tbl) ==
  IF At(s, c) = NUL THEN [status |-> -1, site |-> 0, descr |-> tbl]
  ELSE LET e == ParseEntry(s, c)
           grown == tbl \o [k \in 1..e.num_slots |->
                              SlotDescr(e.hostname, e.working_dir, args)]
       IN  IF e.badhost
           THEN [status |-> ParseErrorStatus, site |-> 221, descr |-> tbl]
           ELSE IF At(s, e.c) = NUL
           THEN [status |-> -1, site |-> 0, descr |-> grown]
           ELSE IF At(s, e.c) = "," /\ At(s, e.c + 1) # NUL
           THEN ParseSlots(s, e.c + 1, args, grown)
           ELSE [status |-> 1, site |-> 293, descr |-> grown]

\* setup_slots(str, args, n_args) on a machine with nproc processors
setup_slots(s, args, nproc) ==
  IF s = NULL
  THEN [status |-> -1, site |-> 0,
        descr |-> [k \in 1..nproc |-> DefaultDescr(args)]]
  ELSE ParseSlots(s, 1, args, <<>>)

\* ----------------------------------------------------------------- state
VARIABLES
  slots,              \* the slot table
  continue_on_error,  \* -k
  trace,              \* -t given (trace # NULL)
  interrupted,        \* the flag set by interrupt()
  handler,            \* the installed SIGINT handler
  input,              \* in_arguments: the lines not yet read
  pc,                 \* position of main()
  str,                \* main's str
  cpid,               \* main's cpid
  slot,               \* main's slot (and i between the scan and the launch)
  status,             \* main's status, as filled by wait(); "none" when
                      \* the block that declares it is not active
  n_active,
  n_faulted,
  error_encountered,
  exit_status,        \* status the dispatcher exited with (-1: running)
  exit_site,          \* history: source line of the exit taken (0: running)
  procs,              \* the children ever created: procs[p] is pid p
  launched,           \* history: one record per created child
  nread,              \* history: number of lines read
  sigs,               \* history: number of SIGINTs handled
  signalled,          \* history: pids passed to kill()
  forkfails,          \* history: number of failed fork() calls
  slots_string,       \* -j argument, NULL without one
  skip_slot_test,     \* -n
  descr,              \* the fields of the table setup_slots fills once:
                      \* descr[k] belongs to slots[k]
  probe,              \* history: how the probe of each host ended
  probed,             \* history: the hosts probed, in order
  entries,            \* history: the entries slots_string was written from
  defect,             \* history: what was written wrong in slots_string
  unescaped,          \* the string handed to escape_str
  escaped,            \* escape_str's result
  fds,                \* the descriptor table of the process
  cwd,                \* its working directory
  image,              \* the argument vector it was exec'ed with, NULL
                      \* while it runs forkargs
  args,               \* main's args: the command, without the line
  argline,            \* history: argline[k] is the number of the line whose
                      \* buffer slots[k].arg points to (0: NULL)
  freed               \* history: the lines whose buffer was passed to
                      \* free(), in the order of the calls

vars == <<slots, continue_on_error, trace, interrupted, handler, input, pc,
          str, cpid, slot, status, n_active, n_faulted, error_encountered,
          exit_status, exit_site, procs, launched, nread, sigs, signalled,
          forkfails, slots_string, skip_slot_test, descr, probe, probed,
          entries, defect, unescaped, escaped, fds, cwd, image, args,
          argline, freed>>

\* the bookkeeping of the line buffers
heapvars == <<argline, freed>>

\* what the process inherits and execvp replaces
childvars == <<fds, cwd, image>>

\* what main() fixes before its loop, and the operands of escape_str
startup == <<slots_string, skip_slot_test, descr, probe, probed, entries,
             defect, unescaped, escaped, childvars, args>>

n_slots == Len(slots)

Pids == 1..Len(procs)
\* children created and not yet reaped
Unreaped == {p \in Pids : procs[p].st # "reaped"}
Zombies == {p \in Pids : procs[p].st = "zombie"}

WIFEXITED(s) == s \in {"exit0", "exitN"}
\* Mutant of ExitedNonzero: the test of the return code is inverted.
ExitedNonzero_Inverted(s) == WIFEXITED(s) /\ s # "exitN"
\* WIFEXITED(status) && WEXITSTATUS(status) != 0
ExitedNonzero(s) == WIFEXITED(s) /\ s = "exitN"

\* ------------------------------------------------------------------ Init
SlotTables ==
  {DefaultTable(n) : n \in 1..MaxSlots}
  \cup UNION {{StringTable(hs, raw) : hs \in [1..n -> {NULL} \cup Hosts],
                                      raw \in [1..n -> BOOLEAN]}
              : n \in 1..MaxSlots}

\* the startup variables and escape_str's operands, when a specification
\* does not follow them
StartupUntracked ==
  /\ slots_string = NULL
  /\ skip_slot_test = FALSE
  /\ descr = <<>>
  /\ probe = <<>>
  /\ probed = <<>>
  /\ entries = <<>>
  /\ defect = "unknown"

EscapeUntracked ==
  /\ unescaped = NULL
  /\ escaped = NULL

ChildUntracked ==
  /\ fds = <<>>
  /\ cwd = NULL
  /\ image = NULL

\* main() up to the first test of the loop condition, for every start that
\* reaches the loop: setup_slots, test_slots unless -n (skip), the faulted
\* count, signal(SIGINT, interrupt).
Init ==
  /\ \E tbl \in SlotTables, skip \in BOOLEAN,
        outcome \in [Hosts -> ProbeOutcomes \ {"forkfail"}] :
       slots = IF skip THEN tbl ELSE test_slots(tbl, outcome, 1, <<>>).tbl
  /\ StartupUntracked
  /\ EscapeUntracked
  /\ ChildUntracked
  /\ exit_site = 0
  /\ n_faulted = CountFaulted(slots)
  /\ continue_on_error \in BOOLEAN
  /\ trace \in BOOLEAN
  /\ \E n \in 0..MaxLines : input = InputStream(n)
  /\ interrupted = 0
  /\ handler = "interrupt"
  /\ pc = "check"
  /\ str = NullLine
  /\ cpid = 0
  /\ slot = 0
  /\ status = "none"
  /\ n_active = 0
  /\ error_encountered = 0
  /\ exit_status = -1
  /\ procs = <<>>
  /\ launched = <<>>
  /\ nread = 0
  /\ sigs = 0
  /\ signalled = {}
  /\ forkfails = 0
  /\ args = Command
  /\ argline = [k \in 1..Len(slots) |-> 0]
  /\ freed = <<>>

\* ------------------------------------------------------- signal handlers
\* the pids really_interrupt() passes to kill(): every recorded handle
KillTargets(tbl) ==
  {tbl[k].cpid : k \in {m \in 1..Len(tbl) : tbl[m].cpid # NoPid}}

\* Mutant of interrupt: the first SIGINT already interrupts the children.
interrupt_Forced ==
  /\ pc # "exited"
  /\ handler = "interrupt"
  /\ sigs < MaxSignals
  /\ interrupted' = 1
  /\ handler' = "really_interrupt"
  /\ sigs' = sigs + 1
  /\ signalled' = signalled \cup KillTargets(slots)
  /\ UNCHANGED <<startup, heapvars, slots, continue_on_error, trace, input,
                 pc, str, cpid, slot, status, n_active, n_faulted,
                 error_encountered, exit_status, exit_site, procs, launched,
                 nread, forkfails>>

\* interrupt(): the first SIGINT.
interrupt ==
  /\ pc # "exited"
  /\ handler = "interrupt"
  /\ sigs < MaxSignals
  /\ interrupted' = 1
  /\ handler' = "really_interrupt"
  /\ sigs' = sigs + 1
  /\ UNCHANGED <<startup, heapvars, slots, continue_on_error, trace, input, pc,
                 str, cpid, slot, status, n_active, n_faulted,
                 error_encountered, exit_status, exit_site, procs, launched,
                 nread, signalled, forkfails>>

\* really_interrupt(): every later SIGINT.
really_interrupt ==
  /\ pc # "exited"
  /\ handler = "really_interrupt"
  /\ sigs < MaxSignals
  /\ signalled' = signalled \cup KillTargets(slots)
  /\ sigs' = sigs + 1
  /\ UNCHANGED <<startup, heapvars, slots, continue_on_error, trace,
                 interrupted, handler, input, pc, str, cpid, slot, status,
                 n_active, n_faulted, error_encountered, exit_status, exit_site,
                 procs, launched, nread, forkfails>>

\* ---------------------------------------------------------------- children
\* A running child terminates: the command exits 0, exits nonzero (also
\* exit(1) after a failed chdir or execvp), or is ended by a signal.
ChildExit ==
  /\ \E p \in Pids, how \in {"exit0", "exitN", "signal"} :
       /\ procs[p].st = "run"
       /\ procs' = [procs EXCEPT ![p] = [st |-> "zombie", how |-> how]]
  /\ UNCHANGED <<startup, heapvars, slots, continue_on_error, trace,
                 interrupted, handler, input, pc, str, cpid, slot, status,
                 n_active, n_faulted, error_encountered, exit_status, exit_site,
                 launched, nread, sigs, signalled, forkfails>>

\* ------------------------------------------------------------ main thread
\* exit(code), and main's return
Exit(code, site) ==
  /\ pc' = "exited"
  /\ exit_status' = code
  /\ exit_site' = site

\* while (!interrupted && (!error_encountered || continue_on_error) ...
LoopCheck ==
  /\ pc = "check"
  /\ pc' = IF interrupted = 0 /\ (error_encountered = 0 \/ continue_on_error)
           THEN "read" ELSE "drain"
  /\ UNCHANGED <<startup, heapvars, slots, continue_on_error, trace,
                 interrupted, handler, input, str, cpid, slot, status, n_active,
                 n_faulted, error_encountered, exit_status, exit_site, procs,
                 launched, nread, sigs, signalled, forkfails>>

\* ... && (str = read_line (in_arguments)) ...
ReadLine ==
  /\ pc = "read"
  /\ str' = read_line(input)
  /\ IF read_line(input) = NullLine
     THEN pc' = "drain" /\ UNCHANGED <<input, nread>>
     ELSE pc' = "check2" /\ input' = Tail(input) /\ nread' = nread + 1
  /\ UNCHANGED <<startup, heapvars, slots, continue_on_error, trace,
                 interrupted, handler, cpid, slot, status, n_active, n_faulted,
                 error_encountered, exit_status, exit_site, procs, launched,
                 sigs, signalled, forkfails>>

\* ... && !interrupted), then "Strip newline"
LoopCheck2 ==
  /\ pc = "check2"
  /\ IF interrupted = 0
     THEN pc' = "cap" /\ str' = StripNewline(str)
     ELSE pc' = "drain" /\ str' = str
  /\ UNCHANGED <<startup, heapvars, slots, continue_on_error, trace,
                 interrupted, handler, input, cpid, slot, status, n_active,
                 n_faulted, error_encountered, exit_status, exit_site, procs,
                 launched, nread, sigs, signalled, forkfails>>

\* Mutant of AtCapacity: the faulted slots are not counted.
AtCapacity_IgnoreFaulted(active, faulted, n) == active >= n

\* Mutant of AtCapacity: the comparison is strict.
AtCapacity_Strict(active, faulted, n) == active + faulted > n

\* Mutant of AtCapacity: the dispatcher waits one slot too early.
AtCapacity_Early(active, faulted, n) == active + faulted + 1 >= n

\* if (n_active + n_faulted >= n_slots)
AtCapacity(active, faulted, n) == active + faulted >= n

Capacity ==
  /\ pc = "cap"
  /\ pc' = IF AtCapacity(n_active, n_faulted, n_slots) THEN "wait1" ELSE "scan"
  /\ UNCHANGED <<startup, heapvars, slots, continue_on_error, trace,
                 interrupted, handler, input, str, cpid, slot, status, n_active,
                 n_faulted, error_encountered, exit_status, exit_site, procs,
                 launched, nread, sigs, signalled, forkfails>>

\* Mutant of Wait: the terminated child is reported but left waitable (as
\* waitid with WNOWAIT would), so it is never reaped.
Wait_NoReap(next) ==
  /\ \/ \E p \in Zombies :
          /\ cpid' = p
          /\ status' = procs[p].how
          /\ UNCHANGED procs
     \/ /\ Unreaped = {}
        /\ cpid' = -1
        /\ UNCHANGED <<procs, status>>
  /\ pc' = next
  /\ UNCHANGED <<startup, heapvars, slots, continue_on_error, trace,
                 interrupted, handler, input, str, slot, n_active, n_faulted,
                 error_encountered, exit_status, exit_site, launched, nread,
                 sigs, signalled, forkfails>>

\* wait(&status): reaps one terminated child; fails with -1 and leaves
\* status alone when the process has no child; blocks otherwise.
Wait(next) ==
  /\ \/ \E p \in Zombies :
          /\ procs' = [procs EXCEPT ![p].st = "reaped"]
          /\ cpid' = p
          /\ status' = procs[p].how
     \/ /\ Unreaped = {}
        /\ cpid' = -1
        /\ UNCHANGED <<procs, status>>
  /\ pc' = next
  /\ UNCHANGED <<startup, heapvars, slots, continue_on_error, trace,
                 interrupted, handler, input, str, slot, n_active, n_faulted,
                 error_encountered, exit_status, exit_site, launched, nread,
                 sigs, signalled, forkfails>>

Wait1 == pc = "wait1" /\ Wait("reap1")

\* The host the "exited with return code" diagnostic of -v names: that of
\* slots[slot], NULL printed as "localhost".
DiagnosticHost(tbl, s) ==
  IF tbl[s].hostname # NULL THEN tbl[s].hostname ELSE LOCALHOST

\* Mutant of FindChild: the scan starts at the second slot.
FindChild_SkipFirst(tbl, pid, i) ==
  LET found == {k \in (i + 1)..Len(tbl) : tbl[k].cpid = pid}
  IN  IF found = {} THEN Len(tbl) + 1
      ELSE CHOOSE k \in found : \A m \in found : k <= m

\* "Scan slot table and remove entry": the first slot holding pid, or
\* Len(tbl)+1
RECURSIVE FindChild(_, _, _)
FindChild(tbl, pid, i) ==
  IF i > Len(tbl) THEN i
  ELSE IF tbl[i].cpid = pid THEN i
  ELSE FindChild(tbl, pid, i + 1)

\* the admission loop after wait() returned, to the end of the block that
\* declares status
Reap1 ==
  /\ pc = "reap1"
  /\ IF cpid = -1
     THEN /\ Exit(InvariantViolationStatus, 637)
          /\ UNCHANGED <<slots, n_active, error_encountered, freed>>
     ELSE /\ error_encountered' =
               IF ExitedNonzero(status) THEN 1 ELSE error_encountered
          /\ LET i == FindChild(slots, cpid, 1)
             IN  IF i = n_slots + 1
                 THEN /\ Exit(InvariantViolationStatus, 667)
                      /\ UNCHANGED <<slots, n_active, freed>>
                 ELSE /\ slots' = [slots EXCEPT ![i].cpid = NoPid]
                      /\ freed' = IF slots[i].arg # NullLine
                                  THEN Append(freed, argline[i]) ELSE freed
                      /\ n_active' = n_active - 1
                      /\ pc' = "scan"
                      /\ UNCHANGED <<exit_status, exit_site>>
  /\ status' = "none"
  /\ UNCHANGED <<startup, argline, continue_on_error, trace, interrupted,
                 handler, input, str, cpid, slot, n_faulted, procs, launched,
                 nread, sigs, signalled, forkfails>>

\* Mutant of FindFree: the scan runs from the last slot down.
FindFree_FromTop(tbl, i) ==
  LET free == {k \in i..Len(tbl) : tbl[k].cpid = NoPid /\ ~tbl[k].faulted}
  IN  IF free = {} THEN Len(tbl) + 1
      ELSE CHOOSE k \in free : \A m \in free : m <= k

\* Mutant of FindFree: the scan forgets the faulted flag.
FindFree_IgnoreFaulted(tbl, i) ==
  LET free == {k \in i..Len(tbl) : tbl[k].cpid = NoPid}
  IN  IF free = {} THEN Len(tbl) + 1
      ELSE CHOOSE k \in free : \A m \in free : k <= m

\* "Scan the slot table to find a free slot": the first slot without a
\* child and not faulted, or Len(tbl)+1
RECURSIVE FindFree(_, _)
FindFree(tbl, i) ==
  IF i > Len(tbl) THEN i
  ELSE IF tbl[i].cpid = NoPid /\ ~tbl[i].faulted THEN i
  ELSE FindFree(tbl, i + 1)

Scan ==
  /\ pc = "scan"
  /\ LET i == FindFree(slots, 1)
     IN  IF i = n_slots + 1
         THEN Exit(InvariantViolationStatus, 681) /\ UNCHANGED slot
         ELSE slot' = i /\ pc' = "fork" /\ UNCHANGED <<exit_status, exit_site>>
  /\ UNCHANGED <<startup, heapvars, slots, continue_on_error, trace,
                 interrupted, handler, input, str, cpid, status, n_active,
                 n_faulted, error_encountered, procs, launched, nread, sigs,
                 signalled, forkfails>>

\* cpid = fork(): a new child running the slot's command with str as its
\* last argument, or -1.
Fork ==
  /\ pc = "fork"
  /\ \/ /\ cpid' = Len(procs) + 1
        /\ procs' = Append(procs, [st |-> "run", how |-> "none"])
        /\ launched' = Append(launched, [line |-> nread, arg |-> str,
                                          slot |-> slot,
                                          pid |-> Len(procs) + 1])
        /\ UNCHANGED forkfails
     \/ /\ forkfails < MaxForkFail
        /\ cpid' = -1
        /\ forkfails' = forkfails + 1
        /\ UNCHANGED <<procs, launched>>
  /\ pc' = "record"
  /\ UNCHANGED <<startup, heapvars, slots, continue_on_error, trace,
                 interrupted, handler, input, str, slot, status, n_active,
                 n_faulted, error_encountered, exit_status, exit_site, nread,
                 sigs, signalled>>

\* Mutant of Record: the line is not stored in the slot.
Record_NoLine ==
  /\ pc = "record"
  /\ IF cpid # 0
     THEN /\ slots' = [slots EXCEPT ![slot].cpid = cpid]
          /\ n_active' = n_active + 1
     ELSE UNCHANGED <<slots, n_active>>
  /\ pc' = "check"
  /\ UNCHANGED <<startup, heapvars, continue_on_error, trace, interrupted,
                 handler, input, str, cpid, slot, status, n_faulted,
                 error_encountered, exit_status, exit_site, procs, launched,
                 nread, sigs, signalled, forkfails>>

\* if (cpid) { slots[i].cpid = cpid; slots[i].arg = str; n_active++; }
\* (cpid is never 0 in the dispatcher: 0 is the child's side of fork)
Record ==
  /\ pc = "record"
  /\ IF cpid # 0
     THEN /\ slots' = [slots EXCEPT ![slot].cpid = cpid, ![slot].arg = str]
          /\ argline' = [argline EXCEPT ![slot] = nread]
          /\ n_active' = n_active + 1
     ELSE UNCHANGED <<slots, argline, n_active>>
  /\ pc' = "check"
  /\ UNCHANGED <<startup, freed, continue_on_error, trace, interrupted, handler,
                 input, str, cpid, slot, status, n_faulted, error_encountered,
                 exit_status, exit_site, procs, launched, nread, sigs,
                 signalled, forkfails>>

\* while (n_active) ... return error_encountered? EXIT_FAILURE : EXIT_SUCCESS
DrainCheck ==
  /\ pc = "drain"
  /\ IF n_active # 0
     THEN pc' = "wait2" /\ UNCHANGED <<exit_status, exit_site>>
     ELSE Exit(IF error_encountered # 0 THEN EXIT_FAILURE ELSE EXIT_SUCCESS,
               810)
  /\ UNCHANGED <<startup, heapvars, slots, continue_on_error, trace,
                 interrupted, handler, input, str, cpid, slot, status, n_active,
                 n_faulted, error_encountered, procs, launched, nread, sigs,
                 signalled, forkfails>>

Wait2 == pc = "wait2" /\ Wait("reap2")

\* Mutant of ClearSlots: no slot is cleared.
ClearSlots_None(tbl, pid, tr) == tbl

\* Mutant of ClearSlots: the slots of the child are taken out of the table.
ClearSlots_Compact(tbl, pid, tr) ==
  SelectSeq(tbl, LAMBDA s : s.cpid # pid)

\* Mutant of ClearSlots: every slot of the table is cleared.
ClearSlots_Every(tbl, pid, tr) ==
  [k \in 1..Len(tbl) |-> [tbl[k] EXCEPT !.cpid = NoPid]]

\* Mutant of ClearSlots: the table is cleared only with a trace.
ClearSlots_TraceOnly(tbl, pid, tr) ==
  [k \in 1..Len(tbl) |->
     IF tr /\ k = FindChild(tbl, pid, 1) /\ tbl[k].cpid = pid
     THEN [tbl[k] EXCEPT !.cpid = NoPid]
     ELSE tbl[k]]

\* "Clear out the slot table": the break sits inside if (trace), so
\* without a trace every slot holding pid is cleared, with a trace the
\* first one only.
ClearSlots(tbl, pid, tr) ==
  [k \in 1..Len(tbl) |->
     IF tbl[k].cpid = pid /\ (~tr \/ k = FindChild(tbl, pid, 1))
     THEN [tbl[k] EXCEPT !.cpid = NoPid]
     ELSE tbl[k]]

\* the lines the loop of "Clear out the slot table" passes to free(), from
\* slot k on: free (slots[i].arg) for every slot it clears (free (NULL)
\* does nothing); al[k] is the line slots[k].arg points to
RECURSIVE DrainFrees(_, _, _, _, _)
DrainFrees(tbl, pid, tr, al, k) ==
  IF k > Len(tbl) THEN <<>>
  ELSE IF tbl[k].cpid = pid
  THEN (IF tbl[k].arg # NullLine THEN <<al[k]>> ELSE <<>>)
       \o (IF tr THEN <<>> ELSE DrainFrees(tbl, pid, tr, al, k + 1))
  ELSE DrainFrees(tbl, pid, tr, al, k + 1)

\* the drain loop after wait() returned.  When wait() failed, status was
\* never written: the test reads an indeterminate int.
Reap2 ==
  /\ pc = "reap2"
  /\ n_active' = n_active - 1
  /\ IF cpid = -1
     THEN error_encountered' \in {error_encountered, 1}
     ELSE error_encountered' =
            IF ExitedNonzero(status) THEN 1 ELSE error_encountered
  /\ slots' = ClearSlots(slots, cpid, trace)
  /\ freed' = freed \o DrainFrees(slots, cpid, trace, argline, 1)
  /\ pc' = "drain"
  /\ status' = "none"
  /\ UNCHANGED <<startup, argline, continue_on_error, trace, interrupted,
                 handler, input, str, cpid, slot, n_faulted, exit_status,
                 exit_site, procs, launched, nread, sigs, signalled, forkfails>>

Main ==
  \/ LoopCheck \/ ReadLine \/ LoopCheck2 \/ Capacity \/ Wait1 \/ Reap1
  \/ Scan \/ Fork \/ Record \/ DrainCheck \/ Wait2 \/ Reap2

Next == Main \/ ChildExit \/ interrupt \/ really_interrupt

Spec == Init /\ [][Next]_vars

\* The main thread keeps running, and every launched job terminates.
FairSpec == Spec /\ WF_vars(Main) /\ WF_vars(ChildExit)

\* The dispatcher under the first stage of cancellation only.
\* really_interrupt writes nothing that main() or a child reads (what
\* kill() does to a child is ChildExit's "signal"), so it can neither make
\* main() stop nor keep it from stopping.
FirstStageNext == Main \/ ChildExit \/ interrupt

TerminationSpec ==
  Init /\ [][FirstStageNext]_vars /\ WF_vars(Main) /\ WF_vars(ChildExit)

\* ------------------------------------------------------ main() before its loop
\* the variables of the loop, which the start of main() leaves alone
loopvars == <<continue_on_error, trace, interrupted, input, str, cpid, slot,
              status, n_active, error_encountered, procs, launched, nread,
              sigs, signalled, forkfails, heapvars>>

\* main()'s variables as their initialisers leave them; SIGINT still has
\* its default disposition
BeforeLoop ==
  /\ continue_on_error = FALSE
  /\ trace = FALSE
  /\ interrupted = 0
  /\ handler = "default"
  /\ input = <<>>
  /\ str = NullLine
  /\ cpid = 0
  /\ slot = 0
  /\ status = "none"
  /\ n_active = 0
  /\ n_faulted = 0
  /\ error_encountered = 0
  /\ exit_status = -1
  /\ exit_site = 0
  /\ procs = <<>>
  /\ launched = <<>>
  /\ nread = 0
  /\ sigs = 0
  /\ signalled = {}
  /\ forkfails = 0
  /\ args = Command
  /\ argline = <<>>
  /\ freed = <<>>

\* -------------------------------------------------- slot strings to parse
\* An entry of a slot string as its writer means it: count slots (0: no
\* count written), a '*' after the count or not, the host name and the
\* working directory (<<>>: not written).
EntryHosts == {<<>>, LOCALHOST, <<"-">>, <<"h", "1">>}
EntryDirs == {<<>>, <<"~", "d">>}
Entries ==
  {[count |-> n, star |-> FALSE, host |-> <<>>, wd |-> <<>>] : n \in 1..2}
  \cup {[count |-> n, star |-> TRUE, host |-> h, wd |-> w] :
          n \in 1..2, h \in EntryHosts, w \in EntryDirs}
  \cup {[count |-> 0, star |-> FALSE, host |-> h, wd |-> w] :
          h \in EntryHosts \ {<<>>}, w \in EntryDirs}

\* the slot strings of the README: "1,1,1", "1,2", "3*localhost"
Bare(n) == [count |-> n, star |-> FALSE, host |-> <<>>, wd |-> <<>>]
ReadmeLists ==
  {<<Bare(1), Bare(1), Bare(1)>>, <<Bare(1), Bare(2)>>,
   <<[count |-> 3, star |-> TRUE, host |-> LOCALHOST, wd |-> <<>>]>>}

EntryLists ==
  UNION {[1..n -> Entries] : n \in 0..MaxEntries} \cup ReadmeLists

\* the text of an entry, and of a list of entries separated by commas
Render(e) ==
  (IF e.count > 0 THEN <<DigitSeq[e.count + 1]>> ELSE <<>>)
  \o (IF e.star THEN <<"*">> ELSE <<>>)
  \o e.host
  \o (IF e.wd # <<>> THEN <<":">> \o e.wd ELSE <<>>)

RECURSIVE RenderList(_)
RenderList(es) ==
  IF es = <<>> THEN <<>>
  ELSE IF Len(es) = 1 THEN Render(es[1])
  ELSE Render(es[1]) \o <<",">> \o RenderList(Tail(es))

\* What is wrong with a slot string: nothing, a comma after its last
\* entry, a character that is no comma after its last entry, a further
\* entry that begins with a character no hostname has.
Defects == {"none", "trailing_comma", "junk_after", "empty_hostname"}
DefectText(es, d) ==
  IF d = "trailing_comma" THEN <<",">>
  ELSE IF d = "junk_after" THEN <<" ", ";">>
  ELSE IF d = "empty_hostname"
  THEN (IF es = <<>> THEN <<>> ELSE <<",">>) \o <<";">>
  ELSE <<>>

\* Slot strings of any shape: up to MaxPieces pieces, one after the other.
SpecPieces ==
  {<<"1">>, <<"2">>, <<"0">>, <<"*">>, <<",">>, <<":">>, <<" ">>, <<";">>,
   <<"h", "1">>, <<"-">>, <<"d">>}

RECURSIVE Flatten(_)
Flatten(ps) == IF ps = <<>> THEN <<>> ELSE Head(ps) \o Flatten(Tail(ps))

PieceStrings ==
  {Flatten(ps) : ps \in UNION {[1..n -> SpecPieces] : n \in 0..MaxPieces}}

\* main() at the call of setup_slots
ParseInit ==
  /\ BeforeLoop
  /\ EscapeUntracked
  /\ ChildUntracked
  /\ slots = <<>>
  /\ pc = "setup_slots"
  /\ skip_slot_test = FALSE
  /\ descr = <<>>
  /\ probe = <<>>
  /\ probed = <<>>
  /\ \/ \E es \in EntryLists, d \in Defects :
          /\ entries = es
          /\ defect = d
          /\ slots_string = RenderList(es) \o DefectText(es, d)
     \/ /\ entries = <<>>
        /\ defect = "unknown"
        /\ slots_string \in PieceStrings \cup {NULL}

\* setup_slots (slots_string, args, line_arg), as far as the fields it
\* computes from the string; the fields it does not compute are
\* StringTable's.
SetupSlots ==
  /\ pc = "setup_slots"
  /\ \E nproc \in 1..MaxSlots :
       LET r == setup_slots(slots_string, Command, nproc)
       IN  /\ descr' = r.descr
           /\ IF r.status # -1
              THEN Exit(r.status, r.site)
              ELSE pc' = "test_slots" /\ UNCHANGED <<exit_status, exit_site>>
  /\ UNCHANGED <<loopvars, handler, slots, n_faulted, slots_string,
                 skip_slot_test, probe, probed, entries, defect, unescaped,
                 escaped, childvars, args>>

ParseSpec == ParseInit /\ [][SetupSlots]_vars

\* ------------------------------------------------------------ probe phase
ProbeHosts == {<<"h", "1">>, <<"h", "2">>}

\* the tables setup_slots can leave, the empty one (slot string "") included
ProbeTables ==
  UNION {{StringTable(hs, raw) : hs \in [1..n -> {NULL} \cup ProbeHosts],
                                 raw \in [1..n -> BOOLEAN]}
         : n \in 0..MaxSlots}

RemoteHosts(tbl) ==
  {tbl[k].hostname : k \in {m \in 1..Len(tbl) : tbl[m].hostname # NULL}}

\* main() after setup_slots
ProbeInit ==
  /\ BeforeLoop
  /\ EscapeUntracked
  /\ ChildUntracked
  /\ slots \in ProbeTables
  /\ pc = "test_slots"
  /\ skip_slot_test \in BOOLEAN
  /\ slots_string = NULL
  /\ descr = <<>>
  /\ entries = <<>>
  /\ defect = "unknown"
  /\ probe = <<>>
  /\ probed = <<>>

\* if (!skip_slot_test) test_slots (argc, argv);
TestSlots ==
  /\ pc = "test_slots"
  /\ IF skip_slot_test
     THEN /\ pc' = "count"
          /\ UNCHANGED <<slots, probe, probed, exit_status, exit_site>>
     ELSE \E outcome \in [RemoteHosts(slots) -> ProbeOutcomes] :
            LET r == test_slots(slots, outcome, 1, <<>>)
            IN  /\ slots' = r.tbl
                /\ probe' = outcome
                /\ probed' = r.probed
                /\ IF r.abort
                   THEN Exit(1, 382)
                   ELSE pc' = "count" /\ UNCHANGED <<exit_status, exit_site>>
  /\ UNCHANGED <<loopvars, handler, n_faulted, slots_string, skip_slot_test,
                 descr, entries, defect, unescaped, escaped, childvars,
                 args>>

\* "Count the number of faulted slots.", the test of n_slots, and
\* signal (SIGINT, interrupt)
CountSlots ==
  /\ pc = "count"
  /\ n_faulted' = CountFaulted(slots)
  /\ IF n_slots <= 0
     THEN Exit(2, 603) /\ UNCHANGED handler
     ELSE /\ pc' = "check"
          /\ handler' = "interrupt"
          /\ UNCHANGED <<exit_status, exit_site>>
  /\ UNCHANGED <<loopvars, startup, slots>>

ProbeNext == TestSlots \/ CountSlots

ProbeSpec == ProbeInit /\ [][ProbeNext]_vars

\* ---------------------------------------------------- escape_str, alone
EscChars ==
  {"a", "Z", "7", "_", "-", "/", ".", " ", "'", "\\", ";", "$"}
EscLines == UNION {[1..n -> EscChars] : n \in 0..MaxLineLen}

EscInit ==
  /\ BeforeLoop
  /\ StartupUntracked
  /\ ChildUntracked
  /\ slots = <<>>
  /\ pc = "escape_str"
  /\ unescaped \in EscLines
  /\ escaped = NULL

\* escaped = escape_str (unescaped)
Escape ==
  /\ pc = "escape_str"
  /\ escaped' = escape_str(unescaped)
  /\ pc' = "escaped"
  /\ UNCHANGED <<loopvars, handler, slots, n_faulted, exit_status, exit_site,
                 slots_string, skip_slot_test, descr, probe, probed, entries,
                 defect, unescaped, childvars, args>>

EscSpec == EscInit /\ [][Escape]_vars

\* ------------------------------------------------ the child side of fork()
\* the descriptor numbers of a process; a descriptor is "closed" or holds
\* the name of what it was opened on
Fds == 0..4
STDIN_FILENO == 0

\* The descriptor table main() has when it forks: in_arguments is stdin, or
\* the file of -f on the first free descriptor; -t may have opened a trace
\* file before it.
FdTable(in0, in3) ==
  [fd \in Fds |-> IF fd = 0 THEN in0
                  ELSE IF fd \in {1, 2} THEN "tty"
                  ELSE IF fd = 3 THEN in3 ELSE "closed"]
DispatcherFds ==
  {FdTable("in_arguments", "closed"), FdTable("in_arguments", "trace"),
   FdTable("tty", "in_arguments"), FdTable("trace", "in_arguments")}

\* Mutant of close: the descriptor stays open.
close_Noop(f, fd) == f

\* close (fd)
close(f, fd) == [f EXCEPT ![fd] = "closed"]

\* open (path, O_RDONLY): the lowest descriptor that is not open
open(f, path) ==
  LET free == {fd \in Fds : f[fd] = "closed"}
  IN  IF free = {} THEN f
      ELSE [f EXCEPT ![CHOOSE fd \in free : \A o \in free : fd <= o] = path]

\* Slot strings whose entries make one slot each (the slots of one entry
\* are alike), and the lines a job can be given.
LaunchLists ==
  {es \in EntryLists : es # <<>> /\ \A k \in 1..Len(es) : es[k].count <= 1}
LaunchLines == {LineText(k) : k \in 1..MaxLines}
\* the commands of 0 .. Len(Command) arguments
Commands == {SubSeq(Command, 1, n) : n \in 0..Len(Command)}

\* fork() has returned 0: the child holds a copy of main()'s variables,
\* of the table and of the descriptors, and runs in the same directory.
LaunchInit ==
  /\ EscapeUntracked
  /\ args \in Commands
  /\ \/ \E es \in LaunchLists :
          /\ entries = es
          /\ slots_string = RenderList(es)
          /\ descr = setup_slots(RenderList(es), args, 1).descr
     \/ \E nproc \in 1..MaxSlots :
          /\ entries = <<>>
          /\ slots_string = NULL
          /\ descr = setup_slots(NULL, args, nproc).descr
  /\ argline = <<>>
  /\ freed = <<>>
  /\ defect = "none"
  /\ skip_slot_test = TRUE
  /\ probe = <<>>
  /\ probed = <<>>
  /\ slots = <<>>
  /\ slot \in 1..Len(descr)
  /\ str \in LaunchLines
  /\ fds \in DispatcherFds
  /\ cwd = <<".">>
  /\ image = NULL
  /\ pc = "child_args"
  /\ cpid = 0
  /\ continue_on_error = FALSE
  /\ trace = FALSE
  /\ interrupted = 0
  /\ handler = "interrupt"
  /\ input = <<>>
  /\ status = "none"
  /\ n_active = 0
  /\ n_faulted = 0
  /\ error_encountered = 0
  /\ exit_status = -1
  /\ exit_site = 0
  /\ procs = <<>>
  /\ launched = <<>>
  /\ nread = 0
  /\ sigs = 0
  /\ signalled = {}
  /\ forkfails = 0

\* what the child leaves alone
launchframe == <<slots, continue_on_error, trace, interrupted, handler, input,
                 str, cpid, slot, status, n_active, n_faulted,
                 error_encountered, procs, launched, nread, sigs, signalled,
                 forkfails, slots_string, skip_slot_test, probe, probed,
                 entries, defect, unescaped, escaped, args, heapvars>>

\* Mutant of LineArg: the line is passed as it was read.
LineArg_Unescaped(remote_slot, line) == line

\* the last argument: escape_str (str) for a remote slot, str otherwise
LineArg(remote_slot, line) == IF remote_slot THEN escape_str(line) ELSE line

\* "Construct exec parameters": args[n_args] = the line, args[n_args+1] =
\* NULL
ChildArgs ==
  /\ pc = "child_args"
  /\ descr' = [descr EXCEPT ![slot].args =
                 SubSeq(@, 1, descr[slot].n_args)
                 \o <<LineArg(descr[slot].remote_slot, str)>>]
  /\ pc' = "child_stdin"
  /\ UNCHANGED <<launchframe, childvars, exit_status, exit_site>>

\* "Close parent's stdin": close (STDIN_FILENO); open ("/dev/null", O_RDONLY)
ChildStdin ==
  /\ pc = "child_stdin"
  /\ fds' = open(close(fds, STDIN_FILENO), "/dev/null")
  /\ pc' = "child_chdir"
  /\ UNCHANGED <<launchframe, descr, cwd, image, exit_status, exit_site>>

\* Mutant of ChildChdir: the directory of any slot is entered.
ChildChdir_AnySlot ==
  /\ pc = "child_chdir"
  /\ IF descr[slot].working_dir # NULL
     THEN \/ /\ cwd' = descr[slot].working_dir
             /\ pc' = "child_exec"
             /\ UNCHANGED <<exit_status, exit_site>>
          \/ Exit(1, 757) /\ UNCHANGED cwd
     ELSE pc' = "child_exec" /\ UNCHANGED <<cwd, exit_status, exit_site>>
  /\ UNCHANGED <<launchframe, descr, fds, image>>

\* "Change working directory, but only if it's a local slot!"; chdir can
\* fail
ChildChdir ==
  /\ pc = "child_chdir"
  /\ IF descr[slot].working_dir # NULL /\ descr[slot].hostname = NULL
     THEN \/ /\ cwd' = descr[slot].working_dir
             /\ pc' = "child_exec"
             /\ UNCHANGED <<exit_status, exit_site>>
          \/ Exit(1, 757) /\ UNCHANGED cwd
     ELSE pc' = "child_exec" /\ UNCHANGED <<cwd, exit_status, exit_site>>
  /\ UNCHANGED <<launchframe, descr, fds, image>>

\* execvp (args[0], args): the command runs with args, or execvp fails
ChildExec ==
  /\ pc = "child_exec"
  /\ \/ /\ image' = descr[slot].args
        /\ pc' = "child_running"
        /\ UNCHANGED <<exit_status, exit_site>>
     \/ Exit(1, 764) /\ UNCHANGED image
  /\ UNCHANGED <<launchframe, descr, fds, cwd>>

LaunchNext == ChildArgs \/ ChildStdin \/ ChildChdir \/ ChildExec

LaunchSpec == LaunchInit /\ [][LaunchNext]_vars

\* ================================================================ claims
\* slots with a recorded child handle
BusySlots == {k \in 1..n_slots : slots[k].cpid # NoPid}
FaultedSlots == {k \in 1..n_slots : slots[k].faulted}
\* Idle: no recorded child, not Faulted
IdleSlots == {k \in 1..n_slots : slots[k].cpid = NoPid /\ ~slots[k].faulted}
\* the number of lines of the whole input
TotalLines == nread + Len(input)
LaunchedLines == {launched[k].line : k \in 1..Len(launched)}
JobExitedNonzero == \E p \in Pids : procs[p].how = "exitN"

\* C1: the number of Busy slots, and the number of launched jobs not yet
\* reaped, never exceed the number of slots minus the number of Faulted
\* slots.
C1_BusyBound ==
  /\ Cardinality(BusySlots) <= n_slots - Cardinality(FaultedSlots)
  /\ Cardinality(Unreaped) <= n_slots - Cardinality(FaultedSlots)

\* C1 witness: a table with a Faulted slot is saturated while a further
\* line waits for a free slot.
C1_Witness ==
  /\ pc = "wait1"
  /\ FaultedSlots # {}
  /\ BusySlots # {}
  /\ Cardinality(Unreaped) = n_slots - Cardinality(FaultedSlots)

\* C3: whenever a job is launched, its slot is the lowest-index slot that
\* is Idle at that moment.
C3_LowestIdleWins ==
  [][Len(launched') > Len(launched) =>
       /\ launched'[Len(launched')].slot \in IdleSlots
       /\ \A k \in IdleSlots : launched'[Len(launched')].slot <= k]_vars

\* C3 witness: a job was just launched on a slot while a slot of higher
\* index was Idle too.
C3_Witness ==
  /\ pc = "record"
  /\ cpid > 0
  /\ launched[Len(launched)].slot = slot
  /\ \E k \in IdleSlots : k > slot

\* C4: no Faulted slot ever has a recorded child handle.
C4_FaultedNeverBusy ==
  \A k \in 1..n_slots : slots[k].faulted => slots[k].cpid = NoPid

\* C4 witness: a job runs in a later slot while an earlier slot is Faulted.
C4_Witness ==
  \E k \in FaultedSlots : \E m \in BusySlots : k < m /\ slots[m].cpid > 0

\* C7: if any launched job exited with a nonzero status, the dispatcher's
\* own exit status is non-success.
C7_FailureMakesNonSuccess ==
  (pc = "exited" /\ JobExitedNonzero) => exit_status # EXIT_SUCCESS

\* C7 witness: main returns after the drain reaped a job that had exited
\* nonzero, in a run without interruption or failed fork.
C7_Witness ==
  /\ pc = "exited"
  /\ JobExitedNonzero
  /\ Unreaped = {}
  /\ n_active = 0
  /\ forkfails = 0
  /\ sigs = 0
  /\ input = <<>>
  /\ Len(launched) >= 2

\* a job that exited nonzero has been reaped by wait()
ReapedNonzero ==
  \E p \in Pids : procs[p].st = "reaped" /\ procs[p].how = "exitN"

\* C5 (as claimed): under the default policy, once a job that exited
\* nonzero has been reaped, no further job is launched.
C5_NoLaunchAfterFailure ==
  [][(~continue_on_error /\ ReapedNonzero) =>
       Len(launched') = Len(launched)]_vars

\* C8 (as claimed): the dispatcher exits with success only if every
\* launched job terminated by exiting with status zero.
C8_SuccessOnlyIfAllExitZero ==
  (pc = "exited" /\ exit_status = EXIT_SUCCESS) =>
     \A p \in Pids : procs[p].how = "exit0"

\* C9 (as claimed): after the first interruption has been handled, no new
\* job is launched for the rest of the run.
C9_NoLaunchAfterInterrupt ==
  [][interrupted = 1 => Len(launched') = Len(launched)]_vars

\* C10 (as claimed): when the second interruption is handled, every child
\* created and not yet reaped is sent the signal.
C10_SecondInterruptSignalsAll ==
  [][(sigs = 1 /\ sigs' = 2) => Unreaped \subseteq signalled']_vars

\* a run with no interruption and no job failure so far: no SIGINT, every
\* process creation succeeded, no job ended other than by exit 0
CleanRun ==
  /\ sigs = 0
  /\ forkfails = 0
  /\ \A p \in Pids : procs[p].how \in {"none", "exit0"}

\* every job was launched for a different line, with that line, stripped
\* of its terminator, as its argument
LaunchedAtMostOnce ==
  /\ \A j, k \in 1..Len(launched) :
        j # k => launched[j].line # launched[k].line
  /\ \A k \in 1..Len(launched) :
        /\ launched[k].line \in 1..nread
        /\ launched[k].arg = LineText(launched[k].line)

AllLinesLaunched == LaunchedLines = 1..TotalLines

C6_FailureDoesNotStopAdmission ==
  (pc = "exited" /\ continue_on_error /\ sigs = 0 /\ JobExitedNonzero) =>
     (AllLinesLaunched /\ exit_status # EXIT_SUCCESS)

\* positions of main() in the final drain
DrainPcs == {"drain", "wait2", "reap2"}

\* C11: once main() has left the admission loop it creates no further
\* child and never returns to the loop; when every launched job terminates
\* it ends; and it ends from the drain only with no slot holding a child
\* handle and every created child reaped.
C11_DrainTerminates ==
  /\ [][(pc \in DrainPcs) =>
          (launched' = launched /\ pc' \in (DrainPcs \cup {"exited"}))]_vars
  /\ [][(pc \in DrainPcs /\ pc' = "exited") =>
          (BusySlots = {} /\ Unreaped = {})]_vars
  /\ ((pc \in DrainPcs) ~> (pc = "exited"))

\* the drain has ended a run that was stopped with a line left unread and
\* a job launched
C11_Witness ==
  /\ pc = "exited"
  /\ exit_site = 810
  /\ input # <<>>
  /\ Len(launched) >= 1

\* ------------------------------------------------- claims on setup_slots
RECURSIVE SumCounts(_)
SumCounts(es) ==
  IF es = <<>> THEN 0
  ELSE (IF Head(es).count = 0 THEN 1 ELSE Head(es).count)
       + SumCounts(Tail(es))

\* a bare integer, or count*localhost
LocalEntry(e) ==
  \/ e.count > 0 /\ ~e.star /\ e.host = <<>> /\ e.wd = <<>>
  \/ e.count > 0 /\ e.star /\ e.host = LOCALHOST

\* setup_slots has returned or exited
SetupDone == pc # "setup_slots"

\* C12: a slot string made of bare integers and count*localhost entries
\* yields as many slots as the sum of its counts, each without a host and
\* with the command unchanged as its arguments (no ssh prefix); "1,1,1",
\* "1,2" and "3*localhost" yield 3.
C12_LocalCounts ==
  (/\ SetupDone
   /\ defect = "none"
   /\ entries # <<>>
   /\ \A k \in 1..Len(entries) : LocalEntry(entries[k]))
  => /\ pc = "test_slots"
     /\ Len(descr) = SumCounts(entries)
     /\ entries \in ReadmeLists => Len(descr) = 3
     /\ \A k \in 1..Len(descr) :
          /\ descr[k].hostname = NULL
          /\ ~descr[k].remote_slot
          /\ descr[k].args = Command

\* "3*localhost" has been parsed into three slots
C12_Witness ==
  /\ pc = "test_slots"
  /\ slots_string = <<"3", "*">> \o LOCALHOST
  /\ Len(descr) = 3

\* the host and working directory the slots of entry e are written to have
ExpectedSlot(e) ==
  LET local == e.host \in {<<>>, LOCALHOST, <<"-">>}
  IN  [hostname |-> IF local THEN NULL ELSE e.host,
       working_dir |-> IF e.wd = <<>> THEN NULL
                       ELSE working_dir_str(e.wd, ~local)]

RECURSIVE Expected(_)
Expected(es) ==
  IF es = <<>> THEN <<>>
  ELSE [k \in 1..(IF Head(es).count = 0 THEN 1 ELSE Head(es).count) |->
          ExpectedSlot(Head(es))]
       \o Expected(Tail(es))

\* C13: for a well-formed slot string the table is the concatenation, in
\* the order of the entries, of count(e) slots per entry e, all with the
\* host and the working directory of e.
C13_EntriesExpandInOrder ==
  (SetupDone /\ defect = "none")
  => /\ pc = "test_slots"
     /\ [k \in 1..Len(descr) |->
           [hostname |-> descr[k].hostname,
            working_dir |-> descr[k].working_dir]] = Expected(entries)

\* two slots of a remote entry followed by the slot of a local entry with
\* a working directory
C13_Witness ==
  /\ pc = "test_slots"
  /\ Len(entries) = 2
  /\ Len(descr) = 3
  /\ descr[1].hostname = <<"h", "1">>
  /\ descr[2] = descr[1]
  /\ descr[3].hostname = NULL
  /\ descr[3].working_dir # NULL

\* the slot string is malformed in one of the three ways of the claim
Malformed ==
  \/ defect = "trailing_comma"
  \/ defect = "empty_hostname"
  \/ defect = "junk_after" /\ entries # <<>> /\ entries[Len(entries)].wd = <<>>

\* C14: a slot string with an empty hostname, with something other than a
\* comma after an entry, or with a trailing comma makes the program exit
\* with the parse-error status before any probe and any job.
C14_MalformedExitsParseError ==
  (SetupDone /\ Malformed)
  => /\ pc = "exited"
     /\ exit_status = ParseErrorStatus
     /\ probed = <<>>
     /\ launched = <<>>

\* C15: the exit statuses of a parse error, of a job failure and of an
\* internal invariant violation are nonzero and pairwise distinct, and
\* every parse error exits with the one parse-error status.
C15_DistinctStatuses ==
  (pc = "exited" /\ exit_site \in {221, 293})
  => /\ exit_status = ParseErrorStatus
     /\ exit_status \notin {0, EXIT_FAILURE, InvariantViolationStatus}
     /\ EXIT_FAILURE # InvariantViolationStatus

\* ---------------------------------------------- claims on the probe phase
\* C16: after a probe phase that was not skipped, every slot of a host
\* whose probe exited nonzero or could not be executed is Faulted.
C16_FailedHostFaulted ==
  (pc \in {"count", "check"} /\ ~skip_slot_test)
  => \A k \in 1..n_slots :
       (/\ slots[k].hostname # NULL
        /\ probe[slots[k].hostname] \in {"exitN", "execfail"})
       => slots[k].faulted

\* two slots of one host, both Faulted after its probe could not be
\* executed
C16_Witness ==
  /\ pc = "count"
  /\ ~skip_slot_test
  /\ n_slots = 2
  /\ slots[1].hostname # NULL
  /\ slots[2].hostname = slots[1].hostname
  /\ probe[slots[1].hostname] = "execfail"
  /\ slots[1].faulted /\ slots[2].faulted

\* C17: a run whose first slot was Faulted by the probe, with every fork
\* succeeding, ends by main's return and by no fatal exit, whatever the
\* number of Faulted slots.
C17_FaultsNeverAbort ==
  (pc = "exited" /\ forkfails = 0 /\ 1 \in FaultedSlots) => exit_site = 810

\* ------------------------------------------------ claims on the main loop
\* C18: the reap of a child that exit(1)ed after a failed chdir or execvp
\* (wait status "exitN") sets error_encountered, returns the slot that
\* holds its handle to Idle and is no exit of the dispatcher.
C18_ExecFailureIsJobFailure ==
  [][(pc \in {"reap1", "reap2"} /\ pc' # pc /\ cpid # -1 /\ status = "exitN")
     => (/\ error_encountered' = 1
         /\ pc' # "exited"
         /\ \E k \in 1..n_slots : slots[k].cpid = cpid
         /\ \A k \in 1..n_slots :
              slots[k].cpid = cpid => slots'[k].cpid = NoPid)]_vars

\* a child that exited nonzero was reaped in the admission loop, its slot
\* is Idle again and the dispatcher goes on
C18_Witness ==
  /\ pc = "scan"
  /\ error_encountered = 1
  /\ cpid # -1
  /\ procs[cpid] = [st |-> "reaped", how |-> "exitN"]
  /\ \A k \in 1..n_slots : slots[k].cpid # cpid

\* C19: after a failed fork the dispatcher ends by main's return with a
\* non-success status, and at every test of the loop condition n_active is
\* the number of slots with a child handle.
C19_ForkFailureIsJobFailure ==
  /\ (pc = "exited" /\ forkfails > 0)
     => (exit_site = 810 /\ exit_status # EXIT_SUCCESS)
  /\ pc = "check" => n_active = Cardinality(BusySlots)

\* ------------------------------------------------- claims on escape_str
\* C20: the shell makes of escape_str(line) exactly one argument, the line.
C20_EscapeRoundTrip ==
  pc = "escaped" => ShellWords(escaped) = <<unescaped>>
\* -------------------------------------------- claims on the order of jobs
\* C21: the jobs are created in the order of their lines in the input:
\* of two created jobs the one created first carries the earlier line, and
\* each job carries the text of the line it was created for, in whatever
\* order the jobs terminate.
C21_LaunchedInInputOrder ==
  /\ \A a, b \in 1..Len(launched) :
       a < b => (/\ launched[a].line < launched[b].line
                 /\ launched[a].pid < launched[b].pid)
  /\ \A a \in 1..Len(launched) :
       launched[a].arg = LineText(launched[a].line)

\* two jobs were created for lines 1 and 2, and the second one has
\* terminated and been reaped while the first still runs
C21_Witness ==
  /\ Len(launched) = 2
  /\ launched[1].line = 1 /\ launched[2].line = 2
  /\ procs[launched[1].pid].st = "run"
  /\ procs[launched[2].pid].st = "reaped"
\* ------------------------------------------------- claims on the children
\* C22: when the command of a job starts, its descriptor 0 is /dev/null
\* and no descriptor of the dispatcher's input.
C22_ChildStdinDetached ==
  pc = "child_running"
  => (/\ fds[STDIN_FILENO] = "/dev/null"
      /\ fds[STDIN_FILENO] # "in_arguments")

\* a command runs whose dispatcher reads its lines from stdin
C22_Witness ==
  /\ pc = "child_running"
  /\ image # NULL
  /\ fds = [FdTable("in_arguments", "closed") EXCEPT ![0] = "/dev/null"]
\* ------------------------------------------ claims on the table at dispatch
\* C23: when dispatch starts a slot is Faulted only if it has a host, the
\* probe phase was not skipped and the probe of its host failed; with the
\* probe phase skipped n_faulted is 0.
C23_FaultedOnlyByProbe ==
  pc = "check"
  => /\ \A k \in 1..n_slots :
          slots[k].faulted
          => (/\ slots[k].hostname # NULL
              /\ ~skip_slot_test
              /\ ProbeFaulted(probe[slots[k].hostname]))
     /\ skip_slot_test => n_faulted = 0
\* ------------------------------------------ claims on the probes started
\* the first slot of the table with the host of slot k
FirstOf(k) ==
  CHOOSE j \in 1..k :
    /\ slots[j].hostname = slots[k].hostname
    /\ \A m \in 1..(j - 1) : slots[m].hostname # slots[k].hostname

\* the first slot of the table with host h
FirstSlotOf(h) ==
  CHOOSE j \in 1..n_slots :
    /\ slots[j].hostname = h
    /\ \A m \in 1..(j - 1) : slots[m].hostname # h

\* C24: test_slots starts no probe for a slot without a host and no second
\* probe for a host; when it returns it has probed every host of the table
\* once, in the order of the hosts' first slots, and every later slot of a
\* host has the faulted flag of the host's first slot.  Skipped, it probes
\* nothing.
C24_ProbedOncePerHost ==
  /\ \A a, b \in 1..Len(probed) : a # b => probed[a] # probed[b]
  /\ \A a \in 1..Len(probed) : probed[a] \in RemoteHosts(slots)
  /\ skip_slot_test => probed = <<>>
  /\ (pc \in {"count", "check"} /\ ~skip_slot_test)
     => /\ {probed[a] : a \in 1..Len(probed)} = RemoteHosts(slots)
        /\ \A a, b \in 1..Len(probed) :
             a < b => FirstSlotOf(probed[a]) < FirstSlotOf(probed[b])
        /\ \A k \in 1..n_slots :
             slots[k].hostname # NULL
             => slots[k].faulted = slots[FirstOf(k)].faulted

\* two slots of one host and one probe, which failed: both are Faulted
C24_Witness ==
  /\ pc = "count"
  /\ n_slots = 2
  /\ slots[1].hostname = <<"h", "1">>
  /\ slots[2].hostname = <<"h", "1">>
  /\ probed = << <<"h", "1">> >>
  /\ probe[<<"h", "1">>] = "exitN"
  /\ slots[2].faulted
\* ---------------------------------------------------- claims on the reap
\* main() takes the step that follows a wait() which returned a child
ReapStep == pc \in {"reap1", "reap2"} /\ pc' # pc /\ cpid # -1

\* C25: the step after a wait() that returned a child, in the admission
\* loop and in the drain, finds exactly one slot with that child's handle,
\* a Busy one, makes it Idle and changes no other slot.
C25_ReapFreesOneSlot ==
  [][ReapStep
     => \E k \in 1..n_slots :
          /\ \A m \in 1..n_slots : (slots[m].cpid = cpid) <=> (m = k)
          /\ ~slots[k].faulted
          /\ slots[k].arg # NullLine
          /\ slots'[k].cpid = NoPid
          /\ ~slots'[k].faulted
          /\ \A m \in 1..n_slots : m # k => slots'[m] = slots[m]]_vars

\* a child was reaped in the drain and its slot is Idle, while the other
\* slot still holds a running child
C25_Witness ==
  /\ pc = "drain"
  /\ cpid \in Pids
  /\ procs[cpid].st = "reaped"
  /\ n_slots = 2
  /\ Cardinality(IdleSlots) = 1
  /\ \E k \in BusySlots : procs[slots[k].cpid].st = "run"
\* main() takes the step that follows a wait() which failed, or returned
\* a pid that no slot holds
LostChildStep ==
  /\ pc \in {"reap1", "reap2"}
  /\ pc' # pc
  /\ (cpid = -1 \/ \A k \in 1..n_slots : slots[k].cpid # cpid)

\* C26: after a wait() that failed or returned a pid no slot holds, in the
\* admission loop and in the drain, the dispatcher exits with the status
\* of an internal invariant violation and leaves the table as it is.
C26_LostChildIsFatal ==
  [][LostChildStep
     => (/\ pc' = "exited"
         /\ exit_status' = InvariantViolationStatus
         /\ slots' = slots)]_vars
\* ---------------------------------------------------- claims on the scan
\* C27: whenever main() is about to scan the table for a free slot, after
\* the capacity test and the wait it may have made, some slot is Idle; no
\* run leaves through "cannot find a free slot".
C27_ScanFindsIdleSlot ==
  /\ pc = "scan" => IdleSlots # {}
  /\ exit_site # 681

\* the scan is about to run after a wait, with one slot Faulted and the
\* only other slot just freed
C27_Witness ==
  /\ pc = "scan"
  /\ n_slots = 2
  /\ Cardinality(FaultedSlots) = 1
  /\ Cardinality(IdleSlots) = 1
  /\ cpid \in Pids
  /\ procs[cpid].st = "reaped"
\* ------------------------------------------- claims on the state of a slot
\* the three states of slot k
IsIdle(k) == slots[k].cpid = NoPid /\ ~slots[k].faulted
IsBusy(k) ==
  slots[k].cpid # NoPid /\ slots[k].arg # NullLine /\ ~slots[k].faulted
IsFaulted(k) == slots[k].faulted /\ slots[k].cpid = NoPid

\* C28: every slot is Idle, Busy or Faulted and in one of the three only;
\* the line a Busy slot records is the line its child was created with.
C28_OneStatePerSlot ==
  \A k \in 1..n_slots :
    /\ Cardinality({s \in {"Idle", "Busy", "Faulted"} :
                      \/ s = "Idle" /\ IsIdle(k)
                      \/ s = "Busy" /\ IsBusy(k)
                      \/ s = "Faulted" /\ IsFaulted(k)}) = 1
    /\ IsBusy(k)
       => \E a \in 1..Len(launched) :
            /\ launched[a].pid = slots[k].cpid
            /\ launched[a].slot = k
            /\ launched[a].arg = slots[k].arg

\* one slot is Faulted while the other is Busy with the second line,
\* after it was Busy with the first
C28_Witness ==
  /\ n_slots = 2
  /\ IsFaulted(1)
  /\ IsBusy(2)
  /\ Len(launched) = 2
  /\ slots[2].arg = LineText(2)
\* ------------------------------------------ claims on the argument vector
\* C29: the command of a job runs with the argument vector: on a slot
\* without a host, the command's arguments and the line as they are; on a
\* slot with a host, "ssh", the host, then "cd", the escaped directory and
\* ";" exactly when the entry has a working directory, then the command's
\* arguments escaped one by one, then the escaped line.
C29_ArgumentVector ==
  pc = "child_running"
  => LET e == IF slots_string = NULL THEN Bare(1) ELSE entries[slot]
         x == ExpectedSlot(e)
     IN  image =
           IF x.hostname = NULL THEN args \o <<str>>
           ELSE << <<"s", "s", "h">>, e.host >>
                \o (IF e.wd # <<>>
                    THEN << <<"c", "d">>, escape_str(e.wd), <<";">> >>
                    ELSE <<>>)
                \o [a \in 1..Len(args) |-> escape_str(args[a])]
                \o <<escape_str(str)>>

\* the command of a line with a blank runs on a host, in a directory
C29_Witness ==
  /\ pc = "child_running"
  /\ descr[slot].remote_slot
  /\ descr[slot].working_dir # NULL
  /\ str = <<"b", " ">>
  /\ args = Command
  /\ Len(image) = 2 + 3 + Len(Command) + 1
  /\ image[Len(image)] = <<"b", "\\", " ">>
\* ------------------------------------------ claims on escape_str's result
\* the characters the claim calls safe
SafeSet == Digit \cup Alpha \cup {"_", "-", "/", "."}

\* the number of characters outside the safe set among the first i of s
Unsafe(s, i) == Cardinality({j \in 1..i : s[j] \notin SafeSet})

\* C30: escape_str(s) has Len(s) characters plus one per character of s
\* outside the safe set; the i-th character of s stands in it after the
\* images of the i-1 characters before it, as itself when it is safe and
\* after a backslash when it is not.
C30_EscapeCharByChar ==
  pc = "escaped"
  => LET s == unescaped
     IN  /\ Len(escaped) = Len(s) + Unsafe(s, Len(s))
         /\ \A i \in 1..Len(s) :
              /\ escaped[i + Unsafe(s, i)] = s[i]
              /\ s[i] \notin SafeSet
                 => escaped[i + Unsafe(s, i) - 1] = "\\"

\* a safe character, a blank and a backslash have been escaped
C30_Witness ==
  /\ pc = "escaped"
  /\ unescaped = <<"a", " ", "\\">>
  /\ escaped = <<"a", "\\", " ", "\\", "\\">>
\* ------------------------------------- claims on the working directory
\* the entry slot `slot' was made from
SlotEntry == IF slots_string = NULL THEN Bare(1) ELSE entries[slot]

\* C31: the working directory of a process changes only in the child
\* (fork() returned 0), only for a slot without a host whose entry names a
\* directory, to that directory, and in the step right before execvp; the
\* command of any other slot runs in the dispatcher's directory.
C31_ChdirOnlyInLocalChild ==
  /\ [][(cwd' # cwd)
        => (/\ cpid = 0
            /\ pc = "child_chdir" /\ pc' = "child_exec"
            /\ ExpectedSlot(SlotEntry).hostname = NULL
            /\ SlotEntry.wd # <<>>
            /\ cwd' = working_dir_str(SlotEntry.wd, FALSE))]_vars
  /\ [](pc = "child_running"
        => (cwd # <<".">>
            <=> (ExpectedSlot(SlotEntry).hostname = NULL
                 /\ SlotEntry.wd # <<>>)))

\* the command of a local slot with directory ~d runs in $HOME/d
C31_Witness ==
  /\ pc = "child_running"
  /\ descr[slot].hostname = NULL
  /\ SlotEntry.wd = <<"~", "d">>
  /\ cwd = HOME \o <<"/", "d">>
\* ------------------------------------------- claims on the diagnostic
\* C32: when main() has reaped a child that exited nonzero, in the
\* admission loop or in the drain, the host its diagnostic names is the
\* host of the slot that holds the child's handle.
C32_DiagnosticNamesJobHost ==
  [][(ReapStep /\ ExitedNonzero(status))
     => \A k \in 1..n_slots :
          slots[k].cpid = cpid
          => DiagnosticHost(slots, slot) = DiagnosticHost(slots, k)]_vars
\* ------------------------------------------- claims on the table's frame
\* C33: no step of the run after the start of dispatch changes the number
\* of slots, the host or the faulted flag of a slot, the faulted count, or
\* the directory and command a slot was set up with; the table changes
\* only in the steps that record a launch or a reap, and there only in the
\* handle and the line of a slot.
C33_TableFixed ==
  [][/\ Len(slots') = Len(slots)
     /\ \A k \in 1..n_slots :
          /\ slots'[k].hostname = slots[k].hostname
          /\ slots'[k].faulted = slots[k].faulted
          /\ DOMAIN slots'[k] = {"hostname", "cpid", "arg", "faulted"}
     /\ n_faulted' = n_faulted
     /\ descr' = descr
     /\ args' = args
     /\ (slots' # slots) => pc \in {"record", "reap1", "reap2"}]_vars

\* a run of two launches has ended with a table of one Faulted and one
\* Idle slot
C33_Witness ==
  /\ pc = "exited"
  /\ Len(launched) = 2
  /\ n_slots = 2
  /\ n_faulted = 1
  /\ Cardinality(FaultedSlots) = 1
  /\ Cardinality(IdleSlots) = 1
\* ------------------------------------------- claims on the line buffers
FreedLines == {freed[a] : a \in 1..Len(freed)}

\* C34: no line is passed to free() twice, the line of a slot that holds
\* a child is not freed, and lines are freed only by the step that follows
\* a wait() which returned a child: one line, that of the slot holding the
\* child.
C34_LineFreedOnceAtReap ==
  /\ [](\A a, b \in 1..Len(freed) : a # b => freed[a] # freed[b])
  /\ [](\A k \in BusySlots : argline[k] \notin FreedLines)
  /\ [][(freed' # freed)
        => (/\ ReapStep
            /\ \E k \in 1..n_slots :
                 /\ slots[k].cpid = cpid
                 /\ freed' = Append(freed, argline[k]))]_vars
\* ------------------------------------------------ claims on n_active
\* C35: while no fork() has failed, n_active is the number of slots that
\* hold a child handle each time main() tests the condition of the
\* admission loop or of the drain loop, and it is never negative.
C35_ActiveCountsBusySlots ==
  forkfails = 0
  => /\ pc \in {"check", "drain"} => n_active = Cardinality(BusySlots)
     /\ n_active >= 0

\* the drain loop tests its condition with one of two jobs reaped
C35_Witness ==
  /\ pc = "drain"
  /\ forkfails = 0
  /\ Len(launched) = 2
  /\ n_active = 1
  /\ Cardinality(BusySlots) = 1
\* ------------------------------------------- claims on the interruptions
\* a step of really_interrupt
ForcedStep == handler = "really_interrupt" /\ sigs' = sigs + 1

\* C36: every pid really_interrupt passes to kill() is, at that moment,
\* a child of the dispatcher that has not been reaped.
C36_SignalsOnlyUnreaped ==
  [][ForcedStep => KillTargets(slots) \subseteq Unreaped]_vars
\* C37: no pid is passed to kill() before the second SIGINT; the handler
\* really_interrupt is installed only by the first SIGINT, which also sets
\* the interrupted flag, and stays installed; the flag, once set, stays set.
C37_StagesOnlyAdvance ==
  /\ [](signalled # {} => sigs >= 2)
  /\ [](sigs <= 1 => signalled = {})
  /\ [](handler = "really_interrupt" <=> sigs >= 1)
  /\ [](interrupted = 1 <=> sigs >= 1)
  /\ [][(handler' # handler)
        => (/\ handler = "interrupt" /\ handler' = "really_interrupt"
            /\ sigs = 0 /\ sigs' = 1
            /\ interrupted = 0 /\ interrupted' = 1)]_vars
  /\ [][interrupted = 1 => interrupted' = 1]_vars
  /\ [][(signalled' # signalled) => handler = "really_interrupt"]_vars

\* the second SIGINT has interrupted a child, the flag is still set
C37_Witness ==
  /\ sigs = 2
  /\ signalled # {}
  /\ interrupted = 1
  /\ handler = "really_interrupt"
\* the dispatcher is blocked in wait(), has a slot that is not Faulted, and
\* no fork() has failed
BlockedInWait ==
  /\ pc \in {"wait1", "wait2"}
  /\ forkfails = 0
  /\ \E k \in 1..Len(slots) : ~slots[k].faulted

\* C38: whenever the dispatcher is in wait() with a usable slot and no failed
\* fork(), some launched job is un-reaped and holds a slot, so wait() does
\* not return -1; and when every job terminates the wait() returns.
C38_WaitHasChild ==
  /\ [](BlockedInWait
        => /\ Unreaped # {}
           /\ Unreaped \subseteq KillTargets(slots)
           /\ n_active > 0)
  /\ [][(BlockedInWait /\ pc' # pc)
        => (cpid' \in Unreaped /\ pc' \in {"reap1", "reap2"})]_vars
  /\ (BlockedInWait ~> pc \notin {"wait1", "wait2"})

\* the dispatcher blocks in wait() while its only child is still running
C38_Witness ==
  /\ BlockedInWait
  /\ \E p \in Unreaped : procs[p].st = "run"
\* the child has written the line and the terminator into its slot's array
ArgsWritten ==
  cpid = 0 /\ pc \in {"child_stdin", "child_chdir", "child_exec",
                       "child_running"}

\* C39: in every slot of the table the entries n_args and n_args + 1 (counted
\* from 0) lie inside the calloc'ed array, and after the child's two writes
\* the line followed by the terminator fits in the array of its slot.
C39_LineAndTerminatorFit ==
  /\ \A k \in 1..Len(descr) :
        /\ descr[k].n_args >= 0
        /\ descr[k].n_args + 1 < descr[k].alloc
  /\ ArgsWritten
       => /\ Len(descr[slot].args) = descr[slot].n_args + 1
          /\ Len(descr[slot].args) + 1 <= descr[slot].alloc

\* the tightest case: a remote slot with a working directory, where the
\* terminator is written into the last entry of the array
C39_Witness ==
  /\ ArgsWritten
  /\ descr[slot].remote_slot
  /\ descr[slot].working_dir # NULL
  /\ args = Command
  /\ descr[slot].n_args + 2 = descr[slot].alloc
====
